---- MODULE Spec2Model ----
(***************************************************************************)
(* The secure-URL registry of nextjs-minio-starter (lib/secure-url.ts) and *)
(* the resolver endpoint /api/secure/[secureId]/[timestamp]/[hash].        *)
(*                                                                         *)
(* Strings are sequences of character codes: the digits of a base-36       *)
(* number are 0..35, letters of bucket names and object keys are taken     *)
(* from the same alphabet.  An optional value is <<>> (undefined / null)   *)
(* or <<v>>.  Time is in milliseconds, as Date.now() reports it.           *)
(***************************************************************************)
EXTENDS Integers, Sequences, FiniteSets, TLC

\* ---------------------------------------------------------------- bounds
MaxIds == 2          \* identifiers nanoid hands out in one run
MaxTicks == 1        \* clock changes in one run
MaxPending == 1      \* generateSecureUrl calls suspended in statObject
MaxResolves == 2     \* successful resolutions of one identifier in one run
MaxRequests == 2     \* resolver requests in one run
MaxSweeps == 26      \* hourly runs of the sweep in one run
MaxUploads == 3      \* uploadFile calls in one run
MaxFiles == 3        \* file records the gallery starts with

\* ------------------------------------------------------- program constants
MsPerHour == 3600000
DefaultExpiryHours == 24
Radix == 36
SweepInterval == 3600000
DefaultMaxSize == 104857600

\* --------------------------------------------------------------- inputs
Undefined == <<>>
Some(v) == <<v>>

Ids == 1..MaxIds

Args(bucketName, objectKey, originalUrl, expiryHours, maxAccesses) ==
    [bucketName |-> bucketName, objectKey |-> objectKey,
     originalUrl |-> originalUrl, expiryHours |-> expiryHours,
     maxAccesses |-> maxAccesses, customPath |-> Undefined]

\* the same call with a customPath
WithCustomPath(a, customPath) == [a EXCEPT !.customPath = Some(customPath)]

\* The argument lists generateSecureUrl is called with.  expiryHours is a
\* fraction <<numerator, denominator>> or undefined (the default applies).
IssueArgs ==
    { Args(<<10>>, <<11, 12>>, <<20>>, Undefined, Undefined),
      Args(<<10>>, <<11, 12>>, <<20>>, Undefined, Some(1)),
      Args(<<10, 11>>, <<12>>, <<21>>, Undefined, Some(0)),
      WithCustomPath(Args(<<10, 11>>, <<12>>, <<21>>, Some(<<0, 1>>),
                          Some(2)), <<30>>) }

\* milliseconds the clock moves in one change
TickSteps == { 1 }

StatOutcomes == { "ok", "notFound", "unavailable" }

\* ------------------------------------------------------------ the codec
\* Number.prototype.toString(36)
RECURSIVE ToString36(_)
ToString36(n) ==
    IF n < Radix THEN <<n>> ELSE ToString36(n \div Radix) \o <<n % Radix>>

\* .digest('hex').substring(0, 8) keeps 32 bits of SHA-256 of an unbounded
\* input: a finite range, so distinct inputs can share a digest.  The model
\* keeps HashSpace values of a digest that depends on every character.
HashSpace == 2

RECURSIVE Sha256Hex8(_)
Sha256Hex8(s) ==
    IF s = <<>> THEN 0
    ELSE (Sha256Hex8(SubSeq(s, 1, Len(s) - 1)) * 5 + s[Len(s)] + 1)
            % HashSpace

ComputeHash(bucketName, objectKey, timestamp) ==
    Sha256Hex8(bucketName \o objectKey \o timestamp)

\* JavaScript truthiness of an optional number
Truthy(opt) == opt # Undefined /\ opt[1] # 0

\* ------------------------------------------------------------- the state
VARIABLES
    urlMappings,   \* the Map: secureId -> SecureUrlMapping
    now,           \* what Date.now() returns
    ticks,         \* number of clock changes so far
    usedIds,       \* identifiers nanoid has returned
    pending,       \* generateSecureUrl calls awaiting statObject
    facade,        \* the facade call in progress, or the last one made
    requests,      \* resolver requests: slot -> the handler's position
    issued,        \* history of the stored mappings: the arguments and the
                   \* path of their issuance
    successes,     \* history of the stored mappings: the resolutions that
                   \* returned their location
    last,          \* history: the registry call that completed last
    upload,        \* the useFileUpload hook: its state, the uploadFile call
                   \* in progress and the running progress timers
    gallery        \* the useFiles hook: its files state, the deleteFile
                   \* calls in progress and the file records of the server

vars ==
    <<urlMappings, now, ticks, usedIds, pending, facade, requests, issued,
      successes, last, upload, gallery>>

Stored == DOMAIN urlMappings

NoCall ==
    [op |-> "none", secureId |-> 0, timestamp |-> <<>>, hash |-> 0,
     result |-> <<>>, error |-> "", stat |-> "", before |-> <<>>,
     paths |-> <<>>, at |-> 0]

\* a completed call: its arguments, what it returned or threw, the Map and
\* the issued paths it found and the clock it read
Call(op, secureId, timestamp, hash, result, error, stat) ==
    [op |-> op, secureId |-> secureId, timestamp |-> timestamp,
     hash |-> hash, result |-> result, error |-> error, stat |-> stat,
     before |-> urlMappings, paths |-> issued, at |-> now]

\* Map.prototype.delete
Remove(map, id) == [i \in (DOMAIN map) \ {id} |-> map[i]]

\* Map.prototype.set
Put(map, id, m) ==
    [i \in (DOMAIN map) \cup {id} |-> IF i = id THEN m ELSE map[i]]

\* the history follows the Map: identifiers are never issued twice, so
\* nothing is asked of a mapping once it is deleted
Keep(history, map) == [i \in DOMAIN map |-> history[i]]

Slots == 1..MaxRequests

Methods == { "GET", "HEAD" }

\* a handler that has not been invoked; `minted`, `found` and `at` are
\* history: the issuance of the mapping the request names, the mapping its
\* resolve found and the clock at its resolve
Idle ==
    [pc |-> "idle", method |-> "", secureId |-> 0, timestamp |-> <<>>,
     hash |-> 0, fileData |-> <<>>, status |-> 0, error |-> "",
     minted |-> <<>>, found |-> <<>>, at |-> 0]

\* no facade call made; `cause` is history: the blob-store call that failed
FacadeIdle ==
    [pc |-> "idle", args |-> <<>>, originalUrl |-> <<>>, presigns |-> 0,
     stats |-> 0, cause |-> "", error |-> "", result |-> <<>>]

\* useState of useFileUpload, no uploadFile call made; `calls`, `returned`
\* and `response` are history: the calls made, how the last one ended and
\* the response its fetch resolved with
UploadIdle ==
    [uploading |-> FALSE, progress |-> 0, error |-> "",
     uploadedFile |-> Undefined, pc |-> "idle", timers |-> 0, calls |-> 0,
     returned |-> "none", response |-> ""]

FileIds == 1..MaxFiles

\* no deleteFile call made for a file
NoDelete == [pc |-> "idle", files |-> {}, ok |-> FALSE, error |-> ""]

\* useFiles after the fetchFiles of its effect has loaded the records of
\* the server
GalleryLoaded ==
    [files |-> FileIds, server |-> FileIds, error |-> "",
     calls |-> [id \in FileIds |-> NoDelete]]

Init ==
    /\ upload = UploadIdle
    /\ gallery = GalleryLoaded
    /\ urlMappings = <<>>
    /\ now = Radix * Radix
    /\ ticks = 0
    /\ usedIds = {}
    /\ pending = 0
    /\ facade = FacadeIdle
    /\ requests = [r \in Slots |-> Idle]
    /\ issued = <<>>
    /\ successes = <<>>
    /\ last = NoCall

\* ------------------------------------------------------------- the clock
Tick ==
    /\ ticks < MaxTicks
    /\ \E d \in TickSteps : now' = now + d
    /\ ticks' = ticks + 1
    /\ UNCHANGED <<upload, gallery, urlMappings, usedIds, pending, facade, requests, issued,
                   successes, last>>

\* Date.now() is the wall clock, which an adjustment can set back; the
\* model sets it back no further than where it started
TickBack ==
    /\ \E d \in TickSteps :
          /\ now - d >= Radix * Radix
          /\ now' = now - d
    /\ UNCHANGED <<upload, gallery, urlMappings, ticks, facade, usedIds, pending, requests, issued,
                   successes, last>>

\* ------------------------------------------------------ generateSecureUrl
ExpiryMs(expiryHours) ==
    LET h == IF expiryHours = Undefined THEN <<DefaultExpiryHours, 1>>
             ELSE expiryHours[1]
    IN (h[1] * MsPerHour) \div h[2]

\* `/secure/${secureId}/${timestamp}/${hash}`: 36 stands for a slash and 37
\* for the word secure
SecurePath(secureId, timestamp, hash) ==
    <<36, 37, 36, secureId, 36>> \o timestamp \o <<36, hash>>

\* `${baseUrl}/api/secure/${secureId}/${timestamp}/${hash}`: 38 stands for
\* the base URL and 39 for the word api
SecureUrl(secureId, timestamp, hash) ==
    <<38, 36, 39>> \o SecurePath(secureId, timestamp, hash)

NewMapping(a, secureId, timestamp, hash) ==
    [id |-> secureId,
     originalUrl |-> a.originalUrl,
     securePath |-> IF a.customPath # Undefined /\ a.customPath[1] # <<>>
                    THEN a.customPath[1]
                    ELSE SecurePath(secureId, timestamp, hash),
     bucketName |-> a.bucketName,
     objectKey |-> a.objectKey,
     expiresAt |-> Some(now + ExpiryMs(a.expiryHours)),
     createdAt |-> now,
     accessCount |-> 0,
     maxAccesses |-> a.maxAccesses]

\* The call runs up to `await MinioClient.statObject(...)`.  Its arguments
\* are read only after the await, so they are drawn when the call resumes.
GenerateSecureUrlCall ==
    /\ pending < MaxPending
    /\ Cardinality(usedIds) + pending < MaxIds
    /\ pending' = pending + 1
    /\ UNCHANGED <<upload, gallery, urlMappings, now, ticks, facade, usedIds, requests, issued,
                   successes, last>>

\* nanoid(16): an identifier not returned before (identifiers are
\* interchangeable, so the model hands them out in order)
Nanoid == { i \in Ids \ usedIds : \A j \in Ids \ usedIds : i <= j }

\* variant: the stored securePath is what the call returns
GenerateSecureUrlMintReturnsPath(a, secureId) ==
    LET timestamp == ToString36(now)
        hash == ComputeHash(a.bucketName, a.objectKey, timestamp)
        mapping == NewMapping(a, secureId, timestamp, hash)
    IN /\ urlMappings' = Put(urlMappings, secureId, mapping)
       /\ usedIds' = usedIds \cup {secureId}
       /\ issued' = Put(issued, secureId,
                        [args |-> a, timestamp |-> timestamp, hash |-> hash,
                         expiresAt |-> now + ExpiryMs(a.expiryHours)])
       /\ successes' = Put(successes, secureId, 0)
       /\ last' = Call("issue", secureId, timestamp, hash,
                       Some(IF a.customPath # Undefined
                            THEN mapping.securePath
                            ELSE SecureUrl(secureId, timestamp, hash)),
                       "", "ok")

\* variant: the mapping is stored under the first identifier that no stored
\* mapping holds
GenerateSecureUrlMintFreeId(a, secureId) ==
    LET timestamp == ToString36(now)
        hash == ComputeHash(a.bucketName, a.objectKey, timestamp)
        free == CHOOSE i \in Ids \ Stored : \A j \in Ids \ Stored : i <= j
    IN /\ urlMappings' = Put(urlMappings, free,
                             NewMapping(a, free, timestamp, hash))
       /\ usedIds' = usedIds \cup {secureId}
       /\ issued' = Put(issued, free,
                        [args |-> a, timestamp |-> timestamp, hash |-> hash,
                         expiresAt |-> now + ExpiryMs(a.expiryHours)])
       /\ successes' = Put(successes, free, 0)
       /\ last' = Call("issue", free, timestamp, hash,
                       Some(SecureUrl(free, timestamp, hash)), "", "ok")

\* statObject resolves: the rest of the try block runs without yielding
GenerateSecureUrlMint(a, secureId) ==
    LET timestamp == ToString36(now)
        hash == ComputeHash(a.bucketName, a.objectKey, timestamp)
        url == SecureUrl(secureId, timestamp, hash)
    IN /\ urlMappings' = Put(urlMappings, secureId,
                             NewMapping(a, secureId, timestamp, hash))
       /\ usedIds' = usedIds \cup {secureId}
       /\ issued' = Put(issued, secureId,
                        [args |-> a, timestamp |-> timestamp, hash |-> hash,
                         expiresAt |-> now + ExpiryMs(a.expiryHours)])
       /\ successes' = Put(successes, secureId, 0)
       /\ last' = Call("issue", secureId, timestamp, hash, Some(url), "", "ok")

\* variant: the mapping is stored before the stat is looked at
GenerateSecureUrlFailStores(a, outcome) ==
    /\ \E secureId \in Nanoid :
          /\ urlMappings' = Put(urlMappings, secureId,
                                NewMapping(a, secureId, ToString36(now), 0))
          /\ issued' = Put(issued, secureId,
                           [args |-> a, timestamp |-> ToString36(now),
                            hash |-> 0,
                            expiresAt |-> now + ExpiryMs(a.expiryHours)])
          /\ successes' = Put(successes, secureId, 0)
          /\ usedIds' = usedIds \cup {secureId}
    /\ last' = Call("issue", 0, <<>>, 0, Undefined,
                    "Failed to generate secure URL", outcome)

\* statObject rejects: the catch block rethrows a generic error
GenerateSecureUrlFail(a, outcome) ==
    /\ last' = Call("issue", 0, <<>>, 0, Undefined,
                    "Failed to generate secure URL", outcome)
    /\ UNCHANGED <<upload, gallery, urlMappings, usedIds, issued, successes>>

GenerateSecureUrlResume ==
    \E a \in IssueArgs, outcome \in StatOutcomes :
        /\ pending > 0
        /\ pending' = pending - 1
        /\ IF outcome = "ok"
           THEN \E secureId \in Nanoid : GenerateSecureUrlMint(a, secureId)
           ELSE GenerateSecureUrlFail(a, outcome)
        /\ UNCHANGED <<upload, gallery, now, ticks, facade, requests>>

\* ------------------------------------------------------- resolveSecureUrl
IsExpired(m, t) == m.expiresAt # Undefined /\ m.expiresAt[1] < t

\* variant: the limit compared with > in place of >=
IsExhaustedOffByOne(m) ==
    Truthy(m.maxAccesses) /\ m.accessCount > m.maxAccesses[1]

IsExhausted(m) == Truthy(m.maxAccesses) /\ m.accessCount >= m.maxAccesses[1]

\* variant: the object key returned in place of the original URL
LocationSwapped(m) ==
    [bucketName |-> m.bucketName, objectKey |-> m.objectKey,
     originalUrl |-> m.objectKey]

Location(m) ==
    [bucketName |-> m.bucketName, objectKey |-> m.objectKey,
     originalUrl |-> m.originalUrl]

\* variant: no access-limit check
ResolveSecureUrlNoLimit(map, secureId, timestamp, hash, t) ==
    IF secureId \notin DOMAIN map
    THEN [result |-> Undefined, map |-> map]
    ELSE LET mapping == map[secureId]
             expectedHash == ComputeHash(mapping.bucketName,
                                         mapping.objectKey, timestamp)
         IN IF hash # expectedHash
            THEN [result |-> Undefined, map |-> map]
            ELSE IF IsExpired(mapping, t)
            THEN [result |-> Undefined, map |-> Remove(map, secureId)]
            ELSE [result |-> Some(Location(mapping)),
                  map |-> [map EXCEPT ![secureId].accessCount = @ + 1]]

\* variant: an expired mapping is refused but left in the Map
ResolveSecureUrlKeepsExpired(map, secureId, timestamp, hash, t) ==
    IF secureId \notin DOMAIN map
    THEN [result |-> Undefined, map |-> map]
    ELSE LET mapping == map[secureId]
             expectedHash == ComputeHash(mapping.bucketName,
                                         mapping.objectKey, timestamp)
         IN IF hash # expectedHash
            THEN [result |-> Undefined, map |-> map]
            ELSE IF IsExpired(mapping, t)
            THEN [result |-> Undefined, map |-> map]
            ELSE IF IsExhausted(mapping)
            THEN [result |-> Undefined, map |-> Remove(map, secureId)]
            ELSE [result |-> Some(Location(mapping)),
                  map |-> [map EXCEPT ![secureId].accessCount = @ + 1]]

\* variant: the presented hash is not compared
ResolveSecureUrlNoHash(map, secureId, timestamp, hash, t) ==
    IF secureId \notin DOMAIN map
    THEN [result |-> Undefined, map |-> map]
    ELSE LET mapping == map[secureId]
         IN IF IsExpired(mapping, t)
            THEN [result |-> Undefined, map |-> Remove(map, secureId)]
            ELSE IF IsExhausted(mapping)
            THEN [result |-> Undefined, map |-> Remove(map, secureId)]
            ELSE [result |-> Some(Location(mapping)),
                  map |-> [map EXCEPT ![secureId].accessCount = @ + 1]]

\* variant: the expected hash leaves the presented timestamp out
ResolveSecureUrlHashOfObject(map, secureId, timestamp, hash, t) ==
    IF secureId \notin DOMAIN map
    THEN [result |-> Undefined, map |-> map]
    ELSE LET mapping == map[secureId]
             expectedHash == ComputeHash(mapping.bucketName,
                                         mapping.objectKey, <<>>)
         IN IF hash # expectedHash
            THEN [result |-> Undefined, map |-> map]
            ELSE IF IsExpired(mapping, t)
            THEN [result |-> Undefined, map |-> Remove(map, secureId)]
            ELSE IF IsExhausted(mapping)
            THEN [result |-> Undefined, map |-> Remove(map, secureId)]
            ELSE [result |-> Some(Location(mapping)),
                  map |-> [map EXCEPT ![secureId].accessCount = @ + 1]]

\* variant: the location is returned without counting the access
ResolveSecureUrlNoIncrement(map, secureId, timestamp, hash, t) ==
    IF secureId \notin DOMAIN map
    THEN [result |-> Undefined, map |-> map]
    ELSE LET mapping == map[secureId]
             expectedHash == ComputeHash(mapping.bucketName,
                                         mapping.objectKey, timestamp)
         IN IF hash # expectedHash
            THEN [result |-> Undefined, map |-> map]
            ELSE IF IsExpired(mapping, t)
            THEN [result |-> Undefined, map |-> Remove(map, secureId)]
            ELSE IF IsExhausted(mapping)
            THEN [result |-> Undefined, map |-> Remove(map, secureId)]
            ELSE [result |-> Some(Location(mapping)), map |-> map]

\* variant: the access is counted before the hash is compared
ResolveSecureUrlCountsRejected(map, secureId, timestamp, hash, t) ==
    IF secureId \notin DOMAIN map
    THEN [result |-> Undefined, map |-> map]
    ELSE LET mapping == map[secureId]
             expectedHash == ComputeHash(mapping.bucketName,
                                         mapping.objectKey, timestamp)
             counted == [map EXCEPT ![secureId].accessCount = @ + 1]
         IN IF hash # expectedHash
            THEN [result |-> Undefined, map |-> counted]
            ELSE IF IsExpired(mapping, t)
            THEN [result |-> Undefined, map |-> Remove(map, secureId)]
            ELSE IF IsExhausted(mapping)
            THEN [result |-> Undefined, map |-> Remove(map, secureId)]
            ELSE [result |-> Some(Location(mapping)), map |-> counted]

\* variant: the expiry is looked at before the hash is compared
ResolveSecureUrlExpiryFirst(map, secureId, timestamp, hash, t) ==
    IF secureId \notin DOMAIN map
    THEN [result |-> Undefined, map |-> map]
    ELSE LET mapping == map[secureId]
             expectedHash == ComputeHash(mapping.bucketName,
                                         mapping.objectKey, timestamp)
         IN IF IsExpired(mapping, t)
            THEN [result |-> Undefined, map |-> Remove(map, secureId)]
            ELSE IF hash # expectedHash
            THEN [result |-> Undefined, map |-> map]
            ELSE IF IsExhausted(mapping)
            THEN [result |-> Undefined, map |-> Remove(map, secureId)]
            ELSE [result |-> Some(Location(mapping)),
                  map |-> [map EXCEPT ![secureId].accessCount = @ + 1]]

\* the returned value and the Map after the call
ResolveSecureUrl(map, secureId, timestamp, hash, t) ==
    IF secureId \notin DOMAIN map
    THEN [result |-> Undefined, map |-> map]
    ELSE LET mapping == map[secureId]
             expectedHash == ComputeHash(mapping.bucketName,
                                         mapping.objectKey, timestamp)
         IN IF hash # expectedHash
            THEN [result |-> Undefined, map |-> map]
            ELSE IF IsExpired(mapping, t)
            THEN [result |-> Undefined, map |-> Remove(map, secureId)]
            ELSE IF IsExhausted(mapping)
            THEN [result |-> Undefined, map |-> Remove(map, secureId)]
            ELSE [result |-> Some(Location(mapping)),
                  map |-> [map EXCEPT ![secureId].accessCount = @ + 1]]

\* Timestamps a caller may present for an identifier: the one issued with
\* it and one-digit forgeries, which between them reach every digest.
TamperTimestamps == { <<d>> : d \in 0..(HashSpace - 1) }

PresentedTimestamps(secureId) ==
    (IF secureId \in DOMAIN issued THEN {issued[secureId].timestamp} ELSE {})
        \cup TamperTimestamps

PresentedHashes == 0..(HashSpace - 1)

Resolve(secureId, timestamp, hash) ==
    LET r == ResolveSecureUrl(urlMappings, secureId, timestamp, hash, now)
    IN /\ urlMappings' = r.map
       /\ successes' = Keep(IF r.result # Undefined
                             THEN [successes EXCEPT ![secureId] = @ + 1]
                             ELSE successes, r.map)
       /\ issued' = Keep(issued, r.map)
       /\ r.result # Undefined => successes'[secureId] <= MaxResolves
       /\ last' = Call("resolve", secureId, timestamp, hash, r.result, "", "")

ResolveCall ==
    /\ \E secureId \in Ids :
         \E timestamp \in PresentedTimestamps(secureId),
            hash \in PresentedHashes : Resolve(secureId, timestamp, hash)
    /\ UNCHANGED <<upload, gallery, now, ticks, facade, usedIds, pending, requests>>

\* ------------------- GET and HEAD /api/secure/[secureId]/[timestamp]/[hash]
\* A request arrives and the handler runs up to `await params`.  Slots are
\* interchangeable and are taken in order; one path stands for all the
\* paths that name an identifier with no stored mapping.
Receive ==
    /\ \E r \in Slots :
          /\ requests[r].pc = "idle"
          /\ \A q \in Slots : q < r => requests[q].pc # "idle"
          /\ \E secureId \in Ids, method \in Methods :
               \E timestamp \in PresentedTimestamps(secureId),
                  hash \in PresentedHashes :
                  /\ secureId \notin DOMAIN issued =>
                        (timestamp = <<0>> /\ hash = 0)
                  /\ requests' = [requests EXCEPT ![r] =
                      [pc |-> "params", method |-> method,
                       secureId |-> secureId,
                       timestamp |-> timestamp, hash |-> hash,
                       fileData |-> Undefined, status |-> 0, error |-> "",
                       minted |-> IF secureId \in DOMAIN issued
                                  THEN Some(issued[secureId]) ELSE Undefined,
                       found |-> Undefined, at |-> 0]]
    /\ UNCHANGED <<upload, gallery, urlMappings, now, ticks, facade, usedIds, pending, issued,
                   successes, last>>

\* the mapping a request names, as its resolve finds it
Found(secureId) ==
    IF secureId \in Stored THEN Some(urlMappings[secureId]) ELSE Undefined

\* variant: a mapping found expired is answered 410 Gone
HandleResolveGone ==
    /\ \E r \in Slots :
          /\ requests[r].pc = "params"
          /\ Resolve(requests[r].secureId, requests[r].timestamp,
                     requests[r].hash)
          /\ requests' = [requests EXCEPT ![r] =
                [@ EXCEPT !.pc = IF last'.result = Undefined
                                 THEN "done" ELSE "stat",
                          !.fileData = last'.result,
                          !.status =
                             IF last'.result # Undefined THEN 0
                             ELSE IF /\ requests[r].secureId \in Stored
                                     /\ requests[r].secureId \notin
                                            DOMAIN urlMappings'
                                     /\ IsExpired(
                                          urlMappings[requests[r].secureId],
                                          now)
                             THEN 410 ELSE 404,
                          !.error = IF last'.result = Undefined
                                    THEN "Invalid or expired secure URL"
                                    ELSE "",
                          !.found = Found(requests[r].secureId),
                          !.at = now]]
    /\ UNCHANGED <<upload, gallery, now, ticks, facade, usedIds, pending>>

\* variant: the HEAD handler looks the mapping up without counting an access
HandleResolveHeadPeeks ==
    /\ \E r \in Slots :
          /\ requests[r].pc = "params"
          /\ IF requests[r].method = "HEAD"
             THEN LET res == ResolveSecureUrlNoIncrement(urlMappings,
                                requests[r].secureId, requests[r].timestamp,
                                requests[r].hash, now)
                  IN /\ urlMappings' = res.map
                     /\ successes' = Keep(successes, res.map)
                     /\ issued' = Keep(issued, res.map)
                     /\ last' = Call("resolve", requests[r].secureId,
                                     requests[r].timestamp, requests[r].hash,
                                     res.result, "", "")
             ELSE Resolve(requests[r].secureId, requests[r].timestamp,
                          requests[r].hash)
          /\ requests' = [requests EXCEPT ![r] =
                [@ EXCEPT !.pc = IF last'.result = Undefined
                                 THEN "done" ELSE "stat",
                          !.fileData = last'.result,
                          !.status = IF last'.result = Undefined
                                     THEN 404 ELSE 0,
                          !.error = IF last'.result = Undefined
                                    THEN "Invalid or expired secure URL"
                                    ELSE "",
                          !.found = Found(requests[r].secureId),
                          !.at = now]]
    /\ UNCHANGED <<upload, gallery, now, ticks, facade, usedIds, pending>>

\* The handler resumes: resolveSecureUrl runs to completion, then either the
\* 404 response is returned or statObject is awaited.
HandleResolve ==
    /\ \E r \in Slots :
          /\ requests[r].pc = "params"
          /\ Resolve(requests[r].secureId, requests[r].timestamp,
                     requests[r].hash)
          /\ requests' = [requests EXCEPT ![r] =
                [@ EXCEPT !.pc = IF last'.result = Undefined
                                 THEN "done" ELSE "stat",
                          !.fileData = last'.result,
                          !.status = IF last'.result = Undefined
                                     THEN 404 ELSE 0,
                          !.error = IF last'.result = Undefined
                                    THEN "Invalid or expired secure URL"
                                    ELSE "",
                          !.found = Found(requests[r].secureId),
                          !.at = now]]
    /\ UNCHANGED <<upload, gallery, now, ticks, facade, usedIds, pending>>

\* the body of the 500 response of each handler's catch block
ServerError(method) ==
    IF method = "GET" THEN "Failed to serve file"
    ELSE "Failed to get file metadata"

\* variant: the catch block gives the counted access back
StatReturnRollsBack ==
    /\ \E r \in Slots, outcome \in StatOutcomes :
          /\ requests[r].pc = "stat"
          /\ requests' = [requests EXCEPT ![r] =
                [@ EXCEPT !.pc = IF outcome = "ok" /\ requests[r].method = "GET"
                                 THEN "stream" ELSE "done",
                          !.status = IF outcome # "ok" THEN 500
                                     ELSE IF requests[r].method = "GET" THEN 0
                                     ELSE 200,
                          !.error = IF outcome # "ok"
                                    THEN ServerError(requests[r].method) ELSE ""]]
          /\ urlMappings' =
                IF outcome # "ok" /\ requests[r].secureId \in Stored
                THEN [urlMappings EXCEPT
                         ![requests[r].secureId].accessCount = @ - 1]
                ELSE urlMappings
    /\ UNCHANGED <<upload, gallery, now, ticks, facade, usedIds, pending, issued,
                   successes, last>>

\* statObject settles: on rejection the catch block answers 500; otherwise
\* GET awaits getObject and HEAD answers 200 with the headers
StatReturn ==
    /\ \E r \in Slots, outcome \in StatOutcomes :
          /\ requests[r].pc = "stat"
          /\ requests' = [requests EXCEPT ![r] =
                [@ EXCEPT !.pc = IF outcome = "ok" /\ requests[r].method = "GET"
                                 THEN "stream" ELSE "done",
                          !.status = IF outcome # "ok" THEN 500
                                     ELSE IF requests[r].method = "GET" THEN 0
                                     ELSE 200,
                          !.error = IF outcome # "ok"
                                    THEN ServerError(requests[r].method) ELSE ""]]
    /\ UNCHANGED <<upload, gallery, urlMappings, now, ticks, facade, usedIds, pending, issued,
                   successes, last>>

\* getObject settles: the response with the stream, or the 500 of the
\* catch block
StreamReturn ==
    /\ \E r \in Slots, outcome \in StatOutcomes :
          /\ requests[r].pc = "stream"
          /\ requests' = [requests EXCEPT ![r] =
                [@ EXCEPT !.pc = "done",
                          !.status = IF outcome = "ok" THEN 200 ELSE 500,
                          !.error = IF outcome # "ok"
                                    THEN ServerError(requests[r].method) ELSE ""]]
    /\ UNCHANGED <<upload, gallery, urlMappings, now, ticks, facade, usedIds, pending, issued,
                   successes, last>>

\* ---------------------------------------------------- invalidateSecureUrl
\* variant: a mapping that is no longer live is reported as absent and left
InvalidateSecureUrlIfLive ==
    /\ \E secureId \in Ids :
          LET live == /\ secureId \in Stored
                      /\ ~IsExpired(urlMappings[secureId], now)
                      /\ ~IsExhausted(urlMappings[secureId])
          IN /\ urlMappings' = IF live THEN Remove(urlMappings, secureId)
                                ELSE urlMappings
             /\ last' = Call("invalidate", secureId, <<>>, 0, Some(live),
                             "", "")
    /\ issued' = Keep(issued, urlMappings')
    /\ successes' = Keep(successes, urlMappings')
    /\ UNCHANGED <<upload, gallery, now, ticks, facade, usedIds, pending, requests>>

InvalidateSecureUrl ==
    /\ \E secureId \in Ids :
          /\ urlMappings' = Remove(urlMappings, secureId)
          /\ last' = Call("invalidate", secureId, <<>>, 0,
                          Some(secureId \in Stored), "", "")
    /\ issued' = Keep(issued, urlMappings')
    /\ successes' = Keep(successes, urlMappings')
    /\ UNCHANGED <<upload, gallery, now, ticks, facade, usedIds, pending, requests>>

\* ------------------------------------------------------ getSecureUrlStats
Stats(map, secureId) ==
    IF secureId \notin DOMAIN map THEN Undefined
    ELSE Some([accessCount |-> map[secureId].accessCount,
               createdAt |-> map[secureId].createdAt,
               expiresAt |-> map[secureId].expiresAt,
               maxAccesses |-> map[secureId].maxAccesses])

\* variant: the lookup counts as an access
GetSecureUrlStatsCounting ==
    /\ \E secureId \in Ids :
          /\ last' = Call("stats", secureId, <<>>, 0,
                          Stats(urlMappings, secureId), "", "")
          /\ urlMappings' =
                IF secureId \in Stored
                THEN [urlMappings EXCEPT ![secureId].accessCount = @ + 1]
                ELSE urlMappings
    /\ UNCHANGED <<upload, gallery, now, ticks, facade, usedIds, pending, requests, issued, successes>>

GetSecureUrlStats ==
    /\ \E secureId \in Ids :
          last' = Call("stats", secureId, <<>>, 0,
                       Stats(urlMappings, secureId), "", "")
    /\ UNCHANGED <<upload, gallery, urlMappings, now, ticks, facade, usedIds, pending, requests,
                   issued, successes>>

\* --------------------------------------------------- listActiveSecureUrls
Summary(m) ==
    [id |-> m.id, bucketName |-> m.bucketName, objectKey |-> m.objectKey,
     accessCount |-> m.accessCount, createdAt |-> m.createdAt,
     expiresAt |-> m.expiresAt]

\* Array.from(urlMappings.values()).map(...): the Map iterates in insertion
\* order, which is the order of the identifiers
RECURSIVE Summaries(_, _)
Summaries(map, ids) ==
    IF ids = {} THEN <<>>
    ELSE LET i == CHOOSE x \in ids : \A y \in ids : x <= y
         IN <<Summary(map[i])>> \o Summaries(map, ids \ {i})

ListActive(map) == Summaries(map, DOMAIN map)

ListActiveSecureUrls ==
    /\ last' = Call("listActive", 0, <<>>, 0, ListActive(urlMappings), "", "")
    /\ UNCHANGED <<upload, gallery, urlMappings, now, ticks, facade, usedIds, pending, requests,
                   issued, successes>>

\* ------------------------------------------------------ the hourly sweep
\* variant: a mapping one access short of its limit is deleted as well
SweepDeletesOffByOne(m, t) ==
    \/ IsExpired(m, t)
    \/ Truthy(m.maxAccesses) /\ m.accessCount + 1 >= m.maxAccesses[1]

\* variant: only the access limit is looked at
SweepDeletesExhausted(m, t) == IsExhausted(m)

SweepDeletes(m, t) == IsExpired(m, t) \/ IsExhausted(m)

SweepMap(map, t) ==
    [i \in { j \in DOMAIN map : ~SweepDeletes(map[j], t) } |-> map[i]]

Sweep ==
    /\ urlMappings' = SweepMap(urlMappings, now)
    /\ last' = Call("sweep", 0, <<>>, 0, Undefined, "", "")
    /\ issued' = Keep(issued, urlMappings')
    /\ successes' = Keep(successes, urlMappings')
    /\ UNCHANGED <<upload, gallery, now, ticks, facade, usedIds, pending, requests>>

\* setInterval(..., 60 * 60 * 1000): a run of the sweep one interval after
\* the previous one, reading the clock when it runs
HourlySweep ==
    /\ now + SweepInterval <= Radix * Radix + MaxSweeps * SweepInterval
    /\ now' = now + SweepInterval
    /\ urlMappings' = SweepMap(urlMappings, now')
    /\ last' = [Call("sweep", 0, <<>>, 0, Undefined, "", "")
                    EXCEPT !.at = now']
    /\ issued' = Keep(issued, urlMappings')
    /\ successes' = Keep(successes, urlMappings')
    /\ UNCHANGED <<upload, gallery, ticks, facade, usedIds, pending, requests>>

\* ------------------------------------------------------------ the facade
\* generateSecureFileUrl ("standard") and generateTemporarySecureFileUrl
\* ("temporary") with the parameters a caller may leave out
FacadeArgs ==
    { [kind |-> "standard", bucketName |-> <<10>>, fileName |-> <<11, 12>>,
       expiryHours |-> Undefined, expiryMinutes |-> Undefined,
       maxAccesses |-> Undefined],
      [kind |-> "standard", bucketName |-> <<10>>, fileName |-> <<11, 12>>,
       expiryHours |-> Undefined, expiryMinutes |-> Undefined,
       maxAccesses |-> Some(1)],
      [kind |-> "temporary", bucketName |-> <<10>>, fileName |-> <<11, 12>>,
       expiryHours |-> Undefined, expiryMinutes |-> Undefined,
       maxAccesses |-> Undefined] }

\* the presigned URL of an object
PresignedUrl(bucketName, fileName) == <<40>> \o bucketName \o fileName

\* variant: the minutes of a temporary link are passed on as hours
RegistryArgsMinutesAsHours(f, originalUrl) ==
    IF f.kind = "standard"
    THEN Args(f.bucketName, f.fileName, originalUrl,
              Some(IF f.expiryHours = Undefined THEN <<24, 1>>
                   ELSE f.expiryHours[1]),
              f.maxAccesses)
    ELSE Args(f.bucketName, f.fileName, originalUrl,
              Some(<<IF f.expiryMinutes = Undefined THEN 15
                     ELSE f.expiryMinutes[1], 1>>),
              Some(1))

\* variant: a standard link gets the cap of a tracked link when none is given
RegistryArgsTracked(f, originalUrl) ==
    IF f.kind = "standard"
    THEN Args(f.bucketName, f.fileName, originalUrl,
              Some(IF f.expiryHours = Undefined THEN <<24, 1>>
                   ELSE f.expiryHours[1]),
              IF f.maxAccesses = Undefined THEN Some(10) ELSE f.maxAccesses)
    ELSE Args(f.bucketName, f.fileName, originalUrl,
              Some(<<IF f.expiryMinutes = Undefined THEN 15
                     ELSE f.expiryMinutes[1], 60>>),
              Some(1))

\* what the facade passes to generateSecureUrl; the temporary link goes
\* through generateTemporarySecureUrl, which divides the minutes by 60 and
\* sets maxAccesses to 1
RegistryArgs(f, originalUrl) ==
    IF f.kind = "standard"
    THEN Args(f.bucketName, f.fileName, originalUrl,
              Some(IF f.expiryHours = Undefined THEN <<24, 1>>
                   ELSE f.expiryHours[1]),
              f.maxAccesses)
    ELSE Args(f.bucketName, f.fileName, originalUrl,
              Some(<<IF f.expiryMinutes = Undefined THEN 15
                     ELSE f.expiryMinutes[1], 60>>),
              Some(1))

\* the error each facade function throws from its catch block
FacadeError(kind) ==
    IF kind = "standard" THEN "Failed to generate secure file URL"
    ELSE "Failed to generate temporary secure file URL"

\* A facade function is called and runs up to the await of
\* presignedGetObject inside getFileUrl.
FacadeCall ==
    /\ facade.pc \in {"idle", "done"}
    /\ Cardinality(usedIds) < MaxIds
    /\ \E f \in FacadeArgs :
          facade' = [FacadeIdle EXCEPT !.pc = "presign", !.args = f,
                                       !.presigns = 1]
    /\ UNCHANGED <<upload, gallery, urlMappings, now, ticks, usedIds, pending, requests,
                   issued, successes, last>>

\* presignedGetObject settles.  On rejection getFileUrl throws and the
\* facade's catch block throws its own error; otherwise generateSecureUrl is
\* called and runs up to the await of statObject.
GetFileUrlReturn ==
    /\ facade.pc = "presign"
    /\ \E outcome \in StatOutcomes :
          facade' =
             IF outcome = "ok"
             THEN [facade EXCEPT !.pc = "stat",
                                 !.originalUrl =
                                    Some(PresignedUrl(facade.args.bucketName,
                                                      facade.args.fileName)),
                                 !.stats = @ + 1]
             ELSE [facade EXCEPT !.pc = "done",
                                 !.cause = "presign",
                                 !.error = FacadeError(facade.args.kind)]
    /\ UNCHANGED <<upload, gallery, urlMappings, now, ticks, usedIds, pending, requests,
                   issued, successes, last>>

\* variant: the error of generateSecureUrl reaches the caller as it is
FacadeResumeRethrows ==
    /\ facade.pc = "stat"
    /\ \E outcome \in StatOutcomes :
          LET a == RegistryArgs(facade.args, facade.originalUrl[1])
          IN IF outcome = "ok"
             THEN /\ \E secureId \in Nanoid :
                        GenerateSecureUrlMint(a, secureId)
                  /\ facade' = [facade EXCEPT !.pc = "done",
                                              !.result = last'.result]
             ELSE /\ GenerateSecureUrlFail(a, outcome)
                  /\ facade' = [facade EXCEPT !.pc = "done",
                                              !.cause = "stat",
                                              !.error = last'.error]
    /\ UNCHANGED <<upload, gallery, now, ticks, pending, requests>>

\* statObject settles inside generateSecureUrl: either the mapping is
\* stored and its URL returned through the facade, or generateSecureUrl
\* throws and the facade's catch block throws its own error.
FacadeResume ==
    /\ facade.pc = "stat"
    /\ \E outcome \in StatOutcomes :
          LET a == RegistryArgs(facade.args, facade.originalUrl[1])
          IN IF outcome = "ok"
             THEN /\ \E secureId \in Nanoid :
                        GenerateSecureUrlMint(a, secureId)
                  /\ facade' = [facade EXCEPT !.pc = "done",
                                              !.result = last'.result]
             ELSE /\ GenerateSecureUrlFail(a, outcome)
                  /\ facade' = [facade EXCEPT !.pc = "done",
                                              !.cause = "stat",
                                              !.error =
                                                 FacadeError(facade.args.kind)]
    /\ UNCHANGED <<upload, gallery, now, ticks, pending, requests>>

\* time passes up to the expiry instant of a stored mapping
TickToExpiry ==
    /\ \E id \in Stored :
          /\ urlMappings[id].expiresAt[1] > now
          /\ now' = urlMappings[id].expiresAt[1]
    /\ UNCHANGED <<upload, gallery, urlMappings, ticks, usedIds, pending, facade, requests,
                   issued, successes, last>>

\* ---------------------------------------------------------- useFileUpload
\* the files uploadFile is called with: size in bytes and MIME type
UploadFiles ==
    { [size |-> 1, type |-> "image/png"],
      [size |-> DefaultMaxSize, type |-> ""],
      [size |-> DefaultMaxSize + 1, type |-> "image/png"],
      [size |-> 1, type |-> "video/mp4"] }

AllowedTypes ==
    { "image/jpeg", "image/png", "image/gif", "image/webp",
      "application/pdf", "text/plain", "text/csv", "application/msword",
      "application/vnd.openxmlformats-officedocument.wordprocessingml.document",
      "application/vnd.ms-excel",
      "application/vnd.openxmlformats-officedocument.spreadsheetml.sheet",
      "application/zip", "application/x-zip-compressed" }

\* validateFile with no options: the error, or "" for a valid file
ValidateFile(file) ==
    IF file.size > DefaultMaxSize THEN "File too large"
    ELSE IF file.type \notin AllowedTypes /\ file.type # ""
    THEN "File type not allowed"
    ELSE ""

\* how the fetch of /api/upload settles: rejected, or resolved with an ok
\* response, an error response, or a response whose body is not JSON
FetchOutcomes == { "rejected", "ok", "error", "garbled" }

Min(a, b) == IF a < b THEN a ELSE b

\* uploadFile is called and runs up to `await fetch`: an invalid file sets
\* the error and returns null; otherwise the state is set to uploading and
\* the progress interval is started
UploadFileCall ==
    /\ upload.pc = "idle"
    /\ upload.calls < MaxUploads
    /\ \E file \in UploadFiles :
          upload' =
             IF ValidateFile(file) # ""
             THEN [upload EXCEPT !.error = ValidateFile(file),
                                 !.calls = @ + 1,
                                 !.returned = "invalid"]
             ELSE [upload EXCEPT !.uploading = TRUE,
                                 !.progress = 0,
                                 !.error = "",
                                 !.uploadedFile = Undefined,
                                 !.pc = "fetch",
                                 !.timers = @ + 1,
                                 !.calls = @ + 1,
                                 !.returned = "none",
                                 !.response = ""]
    /\ UNCHANGED <<urlMappings, now, ticks, usedIds, pending, facade,
                   requests, issued, successes, last, gallery>>

\* a running interval fires
ProgressTick ==
    /\ upload.timers > 0
    /\ upload' = [upload EXCEPT !.progress = Min(@ + 10, 90)]
    /\ UNCHANGED <<urlMappings, now, ticks, usedIds, pending, facade,
                   requests, issued, successes, last, gallery>>

\* the catch block of uploadFile
UploadFailed(message) ==
    [upload EXCEPT !.uploading = FALSE, !.progress = 0, !.error = message,
                   !.pc = "idle", !.returned = "failed"]

\* fetch settles: a rejection goes to the catch block; a response is
\* followed by clearInterval and the await of response.json()
FetchReturn ==
    /\ upload.pc = "fetch"
    /\ \E outcome \in FetchOutcomes :
          upload' =
             IF outcome = "rejected" THEN UploadFailed("Failed to fetch")
             ELSE [upload EXCEPT !.pc = "json", !.timers = @ - 1,
                                 !.response = outcome]
    /\ UNCHANGED <<urlMappings, now, ticks, usedIds, pending, facade,
                   requests, issued, successes, last, gallery>>

\* response.json() settles: a rejection or a response that is not ok goes
\* to the catch block; otherwise the upload has succeeded
JsonReturn ==
    /\ upload.pc = "json"
    /\ upload' =
          IF upload.response = "garbled" THEN UploadFailed("Unexpected token")
          ELSE IF upload.response = "error" THEN UploadFailed("Upload failed")
          ELSE [upload EXCEPT !.uploading = FALSE, !.progress = 100,
                              !.uploadedFile = Some(upload.calls),
                              !.pc = "idle", !.returned = "ok"]
    /\ UNCHANGED <<urlMappings, now, ticks, usedIds, pending, facade,
                   requests, issued, successes, last, gallery>>

\* reset
UploadReset ==
    /\ upload' = [upload EXCEPT !.uploading = FALSE, !.progress = 0,
                                !.error = "", !.uploadedFile = Undefined]
    /\ UNCHANGED <<urlMappings, now, ticks, usedIds, pending, facade,
                   requests, issued, successes, last, gallery>>

\* clearError
UploadClearError ==
    /\ upload' = [upload EXCEPT !.error = ""]
    /\ UNCHANGED <<urlMappings, now, ticks, usedIds, pending, facade,
                   requests, issued, successes, last, gallery>>

\* --------------------------------------------------------------- useFiles
\* how the DELETE handler's calls to the blob store and the database end
DeleteOutcomes == { "ok", "unavailable" }

\* deleteFile(id) is called from the delete button of a listed file and runs
\* up to `await fetch`; the function is the one of the current render, whose
\* `files` is the files state of that render
DeleteFileCall ==
    /\ \E id \in gallery.files :
          /\ gallery.calls[id].pc \in {"idle", "failed"}
          /\ gallery' = [gallery EXCEPT !.calls[id] =
                [pc |-> "request", files |-> gallery.files, ok |-> FALSE,
                 error |-> ""]]
    /\ UNCHANGED <<urlMappings, now, ticks, usedIds, pending, facade,
                   requests, issued, successes, last, upload>>

\* DELETE /api/files/[id]: 404 for an unknown record, 500 when the blob
\* store or the database fails, otherwise the record is deleted.  Requests
\* for distinct ids touch distinct records, so the handler's awaits are
\* taken as one step.
DeleteHandler ==
    /\ \E id \in FileIds, outcome \in DeleteOutcomes :
          /\ gallery.calls[id].pc = "request"
          /\ gallery' =
                IF id \notin gallery.server
                THEN [gallery EXCEPT !.calls[id].pc = "response",
                                     !.calls[id].error = "File not found"]
                ELSE IF outcome # "ok"
                THEN [gallery EXCEPT !.calls[id].pc = "response",
                                     !.calls[id].error =
                                        "Failed to delete file"]
                ELSE [gallery EXCEPT !.calls[id].pc = "response",
                                     !.calls[id].ok = TRUE,
                                     !.server = @ \ {id}]
    /\ UNCHANGED <<urlMappings, now, ticks, usedIds, pending, facade,
                   requests, issued, successes, last, upload>>

\* the response arrives and deleteFile resumes: on success
\* setFiles(files.filter(file => file.id !== id)) with the `files` of the
\* call's render; otherwise setError and the error is thrown again
DeleteFileReturn ==
    /\ \E id \in FileIds :
          /\ gallery.calls[id].pc = "response"
          /\ gallery' =
                IF gallery.calls[id].ok
                THEN [gallery EXCEPT !.files = gallery.calls[id].files \ {id},
                                     !.calls[id].pc = "done"]
                ELSE [gallery EXCEPT !.error = gallery.calls[id].error,
                                     !.calls[id].pc = "failed"]
    /\ UNCHANGED <<urlMappings, now, ticks, usedIds, pending, facade,
                   requests, issued, successes, last, upload>>

\* ------------------------------------------------------------ the claims
\* liveness of a mapping as the data model defines it: the expiry is absent
\* or in the future, and the cap is absent or not yet reached
SpecLive(m, t) ==
    /\ m.expiresAt = Undefined \/ m.expiresAt[1] > t
    /\ m.maxAccesses = Undefined \/ m.accessCount < m.maxAccesses[1]

\* the last call was a resolve of a mapping that was stored when it ran
ResolvedStored ==
    /\ last.op = "resolve"
    /\ last.secureId \in DOMAIN last.before
    /\ last.secureId \in DOMAIN last.paths

Target == last.before[last.secureId]

Minted == last.paths[last.secureId]

\* the last call presented the triple of the path issued for its mapping
CorrectTriple ==
    /\ ResolvedStored
    /\ last.timestamp = Minted.timestamp
    /\ last.hash = Minted.hash

ListedIds(map) == { ListActive(map)[k].id : k \in 1..Len(ListActive(map)) }

\* request r presented the issued triple of a single-use mapping and its
\* resolve ran before the expiry
SingleUseResolved(r) ==
    /\ requests[r].pc \in {"stat", "stream", "done"}
    /\ requests[r].minted # Undefined
    /\ requests[r].minted[1].args.maxAccesses = Some(1)
    /\ requests[r].timestamp = requests[r].minted[1].timestamp
    /\ requests[r].hash = requests[r].minted[1].hash
    /\ requests[r].at <= requests[r].minted[1].expiresAt

Served(r) == requests[r].fileData # Undefined

\* C1: of two concurrent resolves of a single-use mapping that both present
\* its correct triple before expiry, in every interleaving exactly one
\* returns the backing location and the other returns NotFound.
SingleUseExactlyOnce ==
    \A r1, r2 \in Slots :
        (/\ r1 # r2
         /\ SingleUseResolved(r1)
         /\ SingleUseResolved(r2)
         /\ requests[r1].secureId = requests[r2].secureId
         /\ \A q \in Slots \ {r1, r2} :
               ~(Served(q) /\ requests[q].secureId = requests[r1].secureId))
            => (Served(r1) /\ ~Served(r2)) \/ (~Served(r1) /\ Served(r2))

SingleUseRaceSeen ==
    \E r1, r2 \in Slots :
        /\ r1 # r2
        /\ SingleUseResolved(r1)
        /\ SingleUseResolved(r2)
        /\ requests[r1].secureId = requests[r2].secureId
        /\ Served(r1) /\ requests[r1].status = 200
        /\ ~Served(r2) /\ requests[r2].status = 404
        /\ requests[r1].secureId \notin Stored

\* C2: a mapping issued with maxAccesses = n, n >= 1, never has more than n
\* resolutions that returned its location, and its accessCount never
\* exceeds n, whatever calls are interleaved.
AccessCapRespected ==
    \A id \in Stored :
        LET n == issued[id].args.maxAccesses
        IN (n # Undefined /\ n[1] >= 1) =>
              /\ successes[id] <= n[1]
              /\ urlMappings[id].accessCount <= n[1]

\* a capped mapping used n times and then asked for once more
AccessCapReached ==
    /\ CorrectTriple
    /\ Minted.args.maxAccesses # Undefined
    /\ Minted.args.maxAccesses[1] >= 1
    /\ Target.accessCount = Minted.args.maxAccesses[1]
    /\ last.result = Undefined

\* C3: a resolve with the correct triple made after the expiry time has
\* passed returns NotFound, and the mapping is no longer listed afterwards.
ExpiredResolveFails ==
    (/\ CorrectTriple
     /\ Target.expiresAt # Undefined
     /\ Target.expiresAt[1] < last.at)
        => /\ last.result = Undefined
           /\ last.secureId \notin ListedIds(urlMappings)

ExpiredResolveSeen ==
    /\ CorrectTriple
    /\ Target.expiresAt # Undefined
    /\ Target.expiresAt[1] < last.at
    /\ last.result = Undefined

\* C4: for a stored live mapping, a resolve with the issued secureId and
\* timestamp but another hash returns NotFound.
HashTamperRejected ==
    (/\ ResolvedStored
     /\ SpecLive(Target, last.at)
     /\ last.timestamp = Minted.timestamp
     /\ last.hash # Minted.hash)
        => last.result = Undefined

HashTamperSeen ==
    /\ ResolvedStored
    /\ SpecLive(Target, last.at)
    /\ last.timestamp = Minted.timestamp
    /\ last.hash # Minted.hash
    /\ last.result = Undefined

\* C5 as stated: for a stored live mapping, a resolve with the issued
\* secureId and hash but another timestamp returns NotFound.
TimestampTamperRejected ==
    (/\ ResolvedStored
     /\ SpecLive(Target, last.at)
     /\ last.timestamp # Minted.timestamp
     /\ last.hash = Minted.hash)
        => last.result = Undefined

\* the digest of the mapping's object with the presented timestamp
Recomputed == ComputeHash(Target.bucketName, Target.objectKey, last.timestamp)

\* C5 amended: for a stored live mapping, a resolve with the issued secureId
\* and hash but another timestamp returns NotFound unless the digest
\* recomputed for the presented timestamp is the issued hash.
TimestampTamperRejectedUnlessCollision ==
    (/\ ResolvedStored
     /\ SpecLive(Target, last.at)
     /\ last.timestamp # Minted.timestamp
     /\ last.hash = Minted.hash
     /\ Recomputed # Minted.hash)
        => last.result = Undefined

TimestampTamperSeen ==
    /\ ResolvedStored
    /\ SpecLive(Target, last.at)
    /\ last.timestamp # Minted.timestamp
    /\ last.hash = Minted.hash
    /\ Recomputed # Minted.hash
    /\ last.result = Undefined

IssuedLocation(a) ==
    [bucketName |-> a.bucketName, objectKey |-> a.objectKey,
     originalUrl |-> a.originalUrl]

\* C6 as stated: a resolve with the issued triple, before any other
\* operation on the mapping, returns exactly the (bucketName, objectKey,
\* originalUrl) passed to the issue call.
RoundTrip ==
    (/\ CorrectTriple
     /\ Target.accessCount = 0)
        => last.result = Some(IssuedLocation(Minted.args))

\* C6 amended: a resolve with the issued triple, before any other operation
\* on the mapping and not after its expiry time, returns exactly the
\* (bucketName, objectKey, originalUrl) passed to the issue call.
RoundTripBeforeExpiry ==
    (/\ CorrectTriple
     /\ Target.accessCount = 0
     /\ ~(Target.expiresAt[1] < last.at))
        => last.result = Some(IssuedLocation(Minted.args))

RoundTripSeen ==
    /\ CorrectTriple
    /\ Target.accessCount = 0
    /\ ~(Target.expiresAt[1] < last.at)
    /\ last.result = Some(IssuedLocation(Minted.args))

\* the mapping of the last call was issued with no maxAccesses and the
\* default 24-hour expiry
UnlimitedDayLong ==
    /\ Minted.args.maxAccesses = Undefined
    /\ Minted.args.expiryHours = Undefined
    /\ Target.expiresAt = Some(Target.createdAt + DefaultExpiryHours * MsPerHour)

\* C7: for a mapping issued with no maxAccesses and a 24-hour expiry, every
\* resolve with the correct triple made before expiry succeeds and adds one
\* to accessCount, so that after N of them accessCount is N.
UnlimitedResolvesSucceed ==
    (/\ CorrectTriple
     /\ UnlimitedDayLong
     /\ last.at <= Target.expiresAt[1])
        => /\ last.result # Undefined
           /\ last.secureId \in Stored
           /\ urlMappings[last.secureId].accessCount = Target.accessCount + 1
           /\ urlMappings[last.secureId].accessCount = successes[last.secureId]

UnlimitedResolvesSeen ==
    /\ CorrectTriple
    /\ UnlimitedDayLong
    /\ last.at <= Target.expiresAt[1]
    /\ last.secureId \in Stored
    /\ urlMappings[last.secureId].accessCount = MaxResolves

\* C8 as stated: after a run of the sweep the registry holds exactly the
\* mappings that were live before the run.
SweepKeepsExactlyLive ==
    last.op = "sweep" =>
        urlMappings =
            [i \in { j \in DOMAIN last.before : SpecLive(last.before[j], last.at) }
                |-> last.before[i]]

\* C9: stats and listActive leave the stored mappings and their accessCount
\* unchanged.
QueriesReadOnly ==
    last.op \in {"stats", "listActive"} => urlMappings = last.before

QueriesSeen ==
    /\ last.op = "stats"
    /\ last.secureId \in Stored
    /\ last.result = Some([accessCount |-> urlMappings[last.secureId].accessCount,
                           createdAt |-> urlMappings[last.secureId].createdAt,
                           expiresAt |-> urlMappings[last.secureId].expiresAt,
                           maxAccesses |-> urlMappings[last.secureId].maxAccesses])
    /\ urlMappings[last.secureId].accessCount > 0

\* C10: when the stat of the object fails, issue ends with an error and no
\* mapping is created: the registry is as the call found it.
StatFailureAborts ==
    (last.op = "issue" /\ last.stat # "ok")
        => /\ last.error # ""
           /\ last.result = Undefined
           /\ urlMappings = last.before

StatFailureSeen ==
    /\ last.op = "issue"
    /\ last.stat = "notFound"
    /\ last.error # ""
    /\ Stored # {}

\* the last call was an issue that returned
Issued == last.op = "issue" /\ last.error = ""

\* C11 as stated: issue called with a customPath returns that customPath,
\* the mapping being stored under the generated secureId; without customPath
\* it returns the computed indirection path.
CustomPathReturned ==
    Issued =>
        /\ last.secureId \in Stored
        /\ last.result =
              (IF issued[last.secureId].args.customPath # Undefined
               THEN issued[last.secureId].args.customPath
               ELSE Some(SecureUrl(last.secureId, last.timestamp, last.hash)))

\* C11 amended: issue returns the computed indirection path whether or not a
\* customPath is given; a customPath is recorded as the securePath of the
\* mapping, which is stored under the generated secureId.
ComputedPathReturned ==
    Issued =>
        /\ last.secureId \in Stored
        /\ last.secureId \notin DOMAIN last.before
        /\ last.result =
              Some(SecureUrl(last.secureId, last.timestamp, last.hash))
        /\ issued[last.secureId].args.customPath # Undefined =>
              urlMappings[last.secureId].securePath =
                 issued[last.secureId].args.customPath[1]

CustomPathIssued ==
    /\ Issued
    /\ issued[last.secureId].args.customPath # Undefined
    /\ urlMappings[last.secureId].securePath = <<30>>
    /\ last.result = Some(SecureUrl(last.secureId, last.timestamp, last.hash))

\* the triples a caller may present for the identifier of the last call
LastTriples ==
    { <<timestamp, hash>> \in
        ((IF last.secureId \in DOMAIN last.paths
          THEN {last.paths[last.secureId].timestamp} ELSE {})
            \cup TamperTimestamps) \X PresentedHashes : TRUE }

\* C12: invalidate removes the mapping whatever its liveness and returns
\* true iff a mapping with that id was stored; after it a resolve with any
\* triple for that id returns NotFound, stats returns null, and the other
\* mappings are unchanged.
InvalidateRemoves ==
    last.op = "invalidate" =>
        /\ last.result = Some(last.secureId \in DOMAIN last.before)
        /\ urlMappings = Remove(last.before, last.secureId)
        /\ \A triple \in LastTriples :
              ResolveSecureUrl(urlMappings, last.secureId, triple[1],
                               triple[2], now).result = Undefined
        /\ Stats(urlMappings, last.secureId) = Undefined

\* a stored mapping that was no longer live is invalidated while another
\* mapping is stored
InvalidateNonLiveSeen ==
    /\ last.op = "invalidate"
    /\ last.secureId \in DOMAIN last.before
    /\ ~SpecLive(last.before[last.secureId], last.at)
    /\ last.result = Some(TRUE)
    /\ Stored # {}
    /\ last.secureId \notin Stored

\* the last call was a resolve of mapping id that returned its location
ResolvedTo(id) ==
    last.op = "resolve" /\ last.secureId = id /\ last.result # Undefined

\* C13: for every stored mapping, accessCount starts at 0, increases by
\* exactly 1 on each resolve that returns the backing location, is unchanged
\* by every resolve that returns NotFound and by every other operation, and
\* never decreases.
AccessCountCountsSuccesses ==
    \A id \in Stored :
        /\ urlMappings[id].accessCount = successes[id]
        /\ IF id \in DOMAIN last.before
           THEN urlMappings[id].accessCount =
                    last.before[id].accessCount
                        + (IF ResolvedTo(id) THEN 1 ELSE 0)
           ELSE /\ last.op = "issue"
                /\ last.secureId = id
                /\ urlMappings[id].accessCount = 0

\* a resolve that returned NotFound left a mapping with a positive count
RejectedResolveSeen ==
    /\ last.op = "resolve"
    /\ last.result = Undefined
    /\ last.secureId \in Stored
    /\ urlMappings[last.secureId].accessCount > 0
    /\ urlMappings[last.secureId].accessCount = Target.accessCount

ResolvesTo(id) ==
    /\ last' # last
    /\ last'.op = "resolve"
    /\ last'.secureId = id
    /\ last'.result # Undefined

\* C15: once a mapping is non-live (its expiry has passed or accessCount has
\* reached maxAccesses) no resolve returns its location and it stays
\* non-live, also when the clock read later is earlier than the one at which
\* it became non-live and the mapping has not been deleted.
NonLiveNeverResolves ==
    [][\A id \in Stored :
          ~SpecLive(urlMappings[id], now) =>
              /\ ~ResolvesTo(id)
              /\ id \in DOMAIN urlMappings' =>
                    ~SpecLive(urlMappings'[id], now')]_vars

\* the resolve of request r has returned NotFound
Failed(r) ==
    requests[r].pc = "done" /\ requests[r].fileData = Undefined

\* why it did, told from what the resolve found
FailureCause(r) ==
    LET m == requests[r].found
    IN IF m = Undefined THEN "unknown"
       ELSE IF requests[r].hash # ComputeHash(m[1].bucketName,
                                              m[1].objectKey,
                                              requests[r].timestamp)
       THEN "tampered"
       ELSE IF m[1].expiresAt[1] < requests[r].at THEN "expired"
       ELSE "exhausted"

\* what the caller of request r sees
Response(r) == [status |-> requests[r].status, error |-> requests[r].error]

\* C16: every failed resolution looks the same to the caller: the GET or
\* HEAD handler gives the same 404 response whether the secureId is unknown,
\* the hash or timestamp is wrong, the mapping is expired, or its accesses
\* are exhausted.
FailuresIndistinguishable ==
    \A r1, r2 \in Slots :
        (Failed(r1) /\ Failed(r2)) =>
            /\ Response(r1) = Response(r2)
            /\ requests[r1].status = 404

\* a GET for an unknown identifier and a HEAD for an expired mapping
FailuresOfTwoCausesSeen ==
    \E r1, r2 \in Slots :
        /\ Failed(r1) /\ Failed(r2)
        /\ requests[r1].method = "GET" /\ requests[r2].method = "HEAD"
        /\ FailureCause(r1) = "unknown"
        /\ FailureCause(r2) = "expired"
        /\ Response(r1) = Response(r2)

\* the facade call of the given kind, made with defaults, has just returned
\* the URL of the mapping of the last registry call
FacadeIssued(kind) ==
    /\ facade.pc = "done"
    /\ facade.result # Undefined
    /\ facade.args.kind = kind
    /\ facade.args.expiryHours = Undefined
    /\ facade.args.expiryMinutes = Undefined
    /\ facade.args.maxAccesses = Undefined
    /\ Issued
    /\ last.result = facade.result

\* the mapping of the last call came from a temporary link with defaults
TemporaryArgs(a) ==
    a.expiryHours = Some(<<15, 60>>) /\ a.maxAccesses = Some(1)

\* C17: a temporary link issued through the facade with defaults creates a
\* mapping with maxAccesses = 1 and expiresAt = issuance time + 15 minutes,
\* so at most one resolution of it ever succeeds.
TemporaryLinkSingleUse ==
    /\ FacadeIssued("temporary") =>
          /\ last.secureId \in Stored
          /\ TemporaryArgs(issued[last.secureId].args)
          /\ urlMappings[last.secureId].maxAccesses = Some(1)
          /\ urlMappings[last.secureId].expiresAt =
                Some(last.at + 15 * 60 * 1000)
    /\ \A id \in Stored :
          TemporaryArgs(issued[id].args) =>
              /\ successes[id] <= 1
              /\ urlMappings[id].accessCount <= 1

\* a temporary link is resolved once and refused the second time, still
\* within its 15 minutes
TemporaryLinkUsedTwiceSeen ==
    /\ CorrectTriple
    /\ TemporaryArgs(Minted.args)
    /\ Target.accessCount = 1
    /\ last.at > Target.createdAt
    /\ last.at <= Target.expiresAt[1]
    /\ last.result = Undefined
    /\ last.secureId \notin Stored

\* the mapping of the last call came from a standard link with defaults
StandardArgs(a) ==
    a.expiryHours = Some(<<24, 1>>) /\ a.maxAccesses = Undefined

\* C18: a standard secure link issued through the facade with defaults
\* creates a mapping with expiresAt = issuance time + 24 hours and no access
\* cap: any number of resolutions before expiry succeed.
StandardLinkDayLong ==
    /\ FacadeIssued("standard") =>
          /\ last.secureId \in Stored
          /\ StandardArgs(issued[last.secureId].args)
          /\ urlMappings[last.secureId].maxAccesses = Undefined
          /\ urlMappings[last.secureId].expiresAt =
                Some(last.at + 24 * MsPerHour)
    /\ (/\ CorrectTriple
        /\ StandardArgs(Minted.args)
        /\ last.at < Target.expiresAt[1])
          => /\ last.result = Some(IssuedLocation(Minted.args))
             /\ last.secureId \in Stored
             /\ successes[last.secureId] = Target.accessCount + 1

\* a standard link resolved again and again, the last time after the clock
\* has moved
StandardLinkResolvedSeen ==
    /\ CorrectTriple
    /\ StandardArgs(Minted.args)
    /\ last.at > Target.createdAt
    /\ last.at < Target.expiresAt[1]
    /\ last.secureId \in Stored
    /\ successes[last.secureId] = MaxResolves

\* C19: any failure while issuing through the facade, in stat or in
\* presigned-URL generation, reaches the caller as one generic error that
\* does not depend on the cause, and each blob-store call is made at most
\* once per facade call.
FacadeFailsGenerically ==
    /\ facade.presigns <= 1
    /\ facade.stats <= 1
    /\ facade.cause # "" =>
          /\ facade.pc = "done"
          /\ facade.error = FacadeError(facade.args.kind)
          /\ facade.result = Undefined
    /\ (facade.pc = "done" /\ facade.cause = "") =>
          facade.error = "" /\ facade.result # Undefined

\* the stat inside generateSecureUrl failed after the presigned URL was made
FacadeStatFailureSeen ==
    /\ facade.pc = "done"
    /\ facade.cause = "stat"
    /\ facade.presigns = 1
    /\ facade.stats = 1
    /\ facade.error = FacadeError(facade.args.kind)
    /\ last.op = "issue"
    /\ last.error = "Failed to generate secure URL"

\* C20: under fairness of the periodic sweep, every stored mapping that is
\* non-live is eventually removed from the registry, even if it is never
\* resolved or invalidated again.
NonLiveEventuallySwept ==
    \A id \in Ids :
        (id \in Stored /\ ~SpecLive(urlMappings[id], now))
            ~> (id \notin Stored)

\* a run of the sweep removes a mapping that earlier runs had left stored
\* although its cap of 0 was reached
AbandonedMappingSwept ==
    /\ last.op = "sweep"
    /\ \E id \in DOMAIN last.before :
          /\ id \notin Stored
          /\ last.before[id].maxAccesses = Some(0)
          /\ last.before[id].accessCount = 0
          /\ last.at > last.before[id].createdAt + SweepInterval

\* the mappings the last call removed
Removed == DOMAIN last.before \ Stored

\* C21: interleaved with issue and resolve calls, the sweep never removes a
\* mapping that is live at the moment of removal, neither one a resolve has
\* just validated as live nor one that has just been inserted.
SweepRemovesOnlyNonLive ==
    last.op = "sweep" =>
        /\ \A id \in Removed : ~SpecLive(last.before[id], last.at)
        /\ \A id \in Stored : urlMappings[id] = last.before[id]

\* a run of the sweep removes a non-live mapping and keeps a live one that
\* was inserted after it and never resolved
SweepBesideFreshSeen ==
    /\ last.op = "sweep"
    /\ \E id \in Removed, fresh \in Stored :
          /\ fresh > id
          /\ urlMappings[fresh].accessCount = 0
          /\ SpecLive(urlMappings[fresh], last.at)

\* the last call was a resolve that passed the codec verification: its
\* mapping was stored and the presented hash is the digest recomputed for
\* the presented timestamp
Verified == ResolvedStored /\ last.hash = Recomputed

\* C22: a resolve that passes the codec verification on a mapping that is
\* expired or access-exhausted removes the mapping before it returns
\* NotFound: the mapping is no longer stored and stats returns null.
LazyDeletion ==
    (Verified /\ ~SpecLive(Target, last.at))
        => /\ last.result = Undefined
           /\ last.secureId \notin Stored
           /\ Stats(urlMappings, last.secureId) = Undefined

\* C23: a mapping resolves only while expiresAt is strictly in the future:
\* a resolve at a time equal to expiresAt returns NotFound and a run of the
\* sweep at that time removes the mapping.
ExpiryBoundaryNonLive ==
    /\ (Verified /\ Target.expiresAt = Some(last.at))
          => last.result = Undefined
    /\ last.op = "sweep" =>
          \A id \in DOMAIN last.before :
              last.before[id].expiresAt = Some(last.at) => id \notin Stored

\* C24: a mapping issued with maxAccesses = 0 is never live: no resolve of
\* it succeeds and a run of the sweep removes it.
ZeroCapNeverLive ==
    /\ (ResolvedStored /\ Target.maxAccesses = Some(0))
          => last.result = Undefined
    /\ last.op = "sweep" =>
          \A id \in DOMAIN last.before :
              last.before[id].maxAccesses = Some(0) => id \notin Stored

\* C25: a resolve that fails the codec verification, its identifier unknown
\* or its hash not the digest of the presented timestamp, returns NotFound
\* and leaves the registry as it found it: nothing removed, no accessCount
\* changed.
RejectedResolveChangesNothing ==
    (last.op = "resolve" /\ ~Verified)
        => /\ last.result = Undefined
           /\ urlMappings = last.before

\* a resolve with a wrong hash names a mapping whose expiry has passed, and
\* the mapping stays
RejectedResolveOfExpiredSeen ==
    /\ ResolvedStored
    /\ last.hash # Recomputed
    /\ IsExpired(Target, last.at)
    /\ last.secureId \in Stored

\* C26 as stated: for a stored live mapping, resolve returns the location
\* only for the issued (timestamp, hash) pair; every other pair, a different
\* timestamp with the hash recomputed for it included, returns NotFound.
OnlyIssuedPairResolves ==
    (/\ ResolvedStored
     /\ SpecLive(Target, last.at)
     /\ <<last.timestamp, last.hash>> # <<Minted.timestamp, Minted.hash>>)
        => last.result = Undefined

\* C26 amended: for a stored live mapping, resolve returns the location only
\* for a pair whose hash is the digest recomputed from the mapping's
\* bucketName and objectKey and the presented timestamp; every other pair
\* returns NotFound.
OnlyVerifiedPairResolves ==
    (/\ ResolvedStored
     /\ SpecLive(Target, last.at)
     /\ last.hash # Recomputed)
        => last.result = Undefined

\* both kinds of pair that differ from the issued one have been presented
\* for a live mapping: the last one, a forged timestamp with another hash
\* than its digest, is refused although the hash is the issued one
ForgedPairRejectedSeen ==
    /\ ResolvedStored
    /\ SpecLive(Target, last.at)
    /\ last.timestamp # Minted.timestamp
    /\ last.hash # Recomputed
    /\ last.hash = Minted.hash
    /\ last.result = Undefined

\* the resolve of request r has run
Resolved(r) == requests[r].pc \in {"stat", "stream", "done"}

\* the resolve of request r found a mapping that was live, and the request
\* presented a hash that is the digest of its timestamp
ValidForLive(r) ==
    /\ Resolved(r)
    /\ requests[r].found # Undefined
    /\ SpecLive(requests[r].found[1], requests[r].at)
    /\ requests[r].hash = ComputeHash(requests[r].found[1].bucketName,
                                      requests[r].found[1].objectKey,
                                      requests[r].timestamp)

FailedServeStaysCounted ==
    \A r \in Slots :
        (requests[r].pc = "done" /\ requests[r].status = 500)
            => /\ Served(r)
               /\ requests[r].error = ServerError(requests[r].method)
               /\ requests[r].secureId \in Stored =>
                     urlMappings[requests[r].secureId].accessCount
                         >= requests[r].found[1].accessCount + 1
               /\ SingleUseResolved(r) =>
                     \A q \in Slots \ {r} :
                         requests[q].secureId = requests[r].secureId
                             => ~Served(q)

\* a single-use link whose only counted access ended in a 500: the next
\* request with the issued triple finds it used up
FailedServeConsumedSeen ==
    \E r, q \in Slots :
        /\ r # q
        /\ requests[r].pc = "done" /\ requests[r].status = 500
        /\ SingleUseResolved(r) /\ SingleUseResolved(q)
        /\ requests[q].secureId = requests[r].secureId
        /\ requests[q].status = 404
        /\ requests[q].found # Undefined
        /\ requests[q].found[1].accessCount = 1

\* C29: every exit path of uploadFile stops the progress timer: after a
\* failed uploadFile, uploading is false and progress is 0 and stays 0 until
\* the next call; progress is 100 only after a successful upload and never
\* exceeds 90 while uploading.
UploadTimerStopped ==
    /\ upload.pc = "idle" => upload.timers = 0
    /\ (upload.pc = "idle" /\ upload.returned = "failed")
          => ~upload.uploading /\ upload.progress = 0
    /\ upload.progress = 100 => upload.uploadedFile # Undefined
    /\ upload.uploading => upload.progress <= 90

\* C30: after two deleteFile calls for two distinct ids have both completed
\* successfully, in any interleaving of their requests and responses,
\* neither id is in the files state.
DeletedFilesGone ==
    \A a, b \in FileIds :
        (/\ a # b
         /\ gallery.calls[a].pc = "done"
         /\ gallery.calls[b].pc = "done")
            => a \notin gallery.files /\ b \notin gallery.files

\* -------------------------------------------------------- specifications
Next ==
    \/ Tick
    \/ GenerateSecureUrlCall
    \/ GenerateSecureUrlResume
    \/ ResolveCall
    \/ InvalidateSecureUrl
    \/ GetSecureUrlStats
    \/ ListActiveSecureUrls
    \/ Sweep

Spec == Init /\ [][Next]_vars

\* one link is issued and resolver requests for it run concurrently
IssueOne == usedIds = {} /\ pending = 0 /\ GenerateSecureUrlCall

NextHttp ==
    \/ Tick
    \/ IssueOne
    \/ GenerateSecureUrlResume
    \/ Receive
    \/ HandleResolve
    \/ StatReturn
    \/ StreamReturn
    \/ Sweep

SpecHttp == Init /\ [][NextHttp]_vars

\* the registry under a clock that can be set back
NextSkew ==
    \/ Next
    \/ TickBack

SpecSkew == Init /\ [][NextSkew]_vars

\* facade calls up to the first link issued
FacadeOne == usedIds = {} /\ FacadeCall

\* a link issued through the facade, resolved as time passes
NextFacade ==
    \/ FacadeOne
    \/ GetFileUrlReturn
    \/ FacadeResume
    \/ ResolveCall
    \/ Tick
    \/ TickToExpiry
    \/ Sweep

SpecFacade == Init /\ [][NextFacade]_vars

\* a link issued before the first run of the sweep
IssueEarly == now = Radix * Radix /\ GenerateSecureUrlResume

\* the registry with the sweep on its timer: as long as the process runs the
\* timer fires every hour
NextSweep ==
    \/ IssueOne
    \/ IssueEarly
    \/ ResolveCall
    \/ HourlySweep

SpecSweep == Init /\ [][NextSweep]_vars /\ WF_vars(HourlySweep)

\* the useFileUpload hook on its own
NextUpload ==
    \/ UploadFileCall
    \/ ProgressTick
    \/ FetchReturn
    \/ JsonReturn
    \/ UploadReset
    \/ UploadClearError

SpecUpload == Init /\ [][NextUpload]_vars

\* the useFiles hook and the DELETE endpoint on their own
NextGallery ==
    \/ DeleteFileCall
    \/ DeleteHandler
    \/ DeleteFileReturn

SpecGallery == Init /\ [][NextGallery]_vars

====
